---- MODULE Spec2Model ----
(***************************************************************************)
(* Model of the stamp analysis pipeline: analyze_stamp.py (primary entry   *)
(* point: analysis, persistence of output/result.json, optional --tts      *)
(* branch) and json_to_voice.py (narration and speech synthesis, also a    *)
(* secondary entry point).  A behaviour is a sequence of process runs over *)
(* one file system; every step of a run is one action, so that the file    *)
(* system is observable between the statements that change it.             *)
(***************************************************************************)
EXTENDS Integers, Sequences, FiniteSets, TLC

\* ------------------------------------------------------------------ bounds
\* Number of process runs in one behaviour (files persist between runs).
MaxRuns == 2

\* ------------------------------------------------------------ Python values
\* None: the value of os.getenv for an absent variable.
None == "None"

\* Python truthiness of a string-or-None value (`if not api_key`).
Truthy(v) == v \notin {None, ""}

\* Exceptions are [type, msg]; NoExc is "nothing raised".
Exc(type, msg) == [type |-> type, msg |-> msg]
NoExc == Exc("none", "")

\* The exception classes raised here, with their base class.
Base(cls) ==
    CASE cls = "JSONDecodeError"   -> "ValueError"
      [] cls = "ValueError"        -> "Exception"
      [] cls = "FileNotFoundError" -> "OSError"
      [] cls = "OSError"           -> "Exception"
      [] cls = "APIError"          -> "Exception"
      [] OTHER                     -> "BaseException"

RECURSIVE IsInstance(_, _)
\* isinstance() on class names: cls is `of` or one of its subclasses.
IsInstance(cls, of) ==
    IF cls = of THEN TRUE
    ELSE IF cls \in {"BaseException", "none"} THEN FALSE
    ELSE IsInstance(Base(cls), of)

\* Messages of the raise statements.
MsgNoKey      == "OPENAI_API_KEY not found in environment"
MsgNoModel    == "OPENAI_MODEL not found in environment"
MsgNoTtsModel == "OPENAI_TTS_MODEL not found in environment"
MsgNoTtsVoice == "OPENAI_TTS_VOICE not found in environment"
MsgNoImage    == "image file not found"
MsgNoJson     == "JSON file not found"
MsgNoChoices  == "API returned empty choices"
MsgNoMessage  == "API returned no message"
MsgEmpty      == "model returned empty answer"
MsgEmptyText  == "model returned empty voice text"
MsgNoAudio    == "could not generate audio"
MsgDecode     == "Expecting value"
MsgIO         == "I/O error"
MsgAPI        == "request failed"

ConfigMsgs == {MsgNoKey, MsgNoModel, MsgNoTtsModel, MsgNoTtsVoice}
EmptyResponseMsgs == {MsgNoChoices, MsgNoMessage, MsgEmpty, MsgEmptyText}

\* ------------------------------------------------------------------- texts
\* Texts are sequences of tokens; " " is whitespace.
RECURSIVE LStrip(_)
LStrip(s) == IF s # <<>> /\ Head(s) = " " THEN LStrip(Tail(s)) ELSE s

RECURSIVE RStrip(_)
RStrip(s) ==
    IF s # <<>> /\ s[Len(s)] = " " THEN RStrip(SubSeq(s, 1, Len(s) - 1)) ELSE s

\* str.strip()
Strip(s) == RStrip(LStrip(s))

\* The stamp records the service can describe.
Keys == {"a", "b"}

\* json.loads accepts a text that is, surrounding whitespace aside, one object.
IsJson(text) ==
    LET t == Strip(text)
    IN  Len(t) = 3 /\ t[1] = "{" /\ t[3] = "}" /\ t[2] \in Keys

\* json.loads: the parsed structure of a valid text.
JsonLoads(text) == Strip(text)[2]

\* json.dump: the chunks written for a parsed structure.
JsonDump(v) == <<"{", v, "}">>

\* ------------------------------------------------------------------- files
File(data) == [exists |-> TRUE, data |-> data]
Absent == [exists |-> FALSE, data |-> <<>>]

TtsFormats == {"mp3", "opus", "aac", "flac"}

\* -------------------------------------------------------------- environment
EnvNames == {"OPENAI_API_KEY", "OPENAI_MODEL", "OPENAI_TTS_MODEL",
             "OPENAI_TTS_VOICE", "OPENAI_TTS_FORMAT"}

\* An environment with every variable set.
BaseEnv ==
    [OPENAI_API_KEY |-> "sk", OPENAI_MODEL |-> "gpt",
     OPENAI_TTS_MODEL |-> "tts-1-hd", OPENAI_TTS_VOICE |-> "nova",
     OPENAI_TTS_FORMAT |-> "opus"]

\* The values a variable takes: absent, empty (where the code tests for it),
\* or set.
EnvValues(n) ==
    CASE n = "OPENAI_API_KEY"    -> {None, "", "sk"}
      [] n = "OPENAI_MODEL"      -> {None, "", "gpt"}
      [] n = "OPENAI_TTS_MODEL"  -> {None, "", "tts-1-hd"}
      [] n = "OPENAI_TTS_VOICE"  -> {None, "", "nova"}
      [] n = "OPENAI_TTS_FORMAT" -> {None} \cup TtsFormats

\* The environments of a run: the baseline, and every environment that
\* differs from it in one variable.
Envs == UNION {{[BaseEnv EXCEPT ![n] = v] : v \in EnvValues(n)} : n \in EnvNames}

\* os.getenv(name, default)
GetenvDefault(e, name, default) == IF e[name] = None THEN default ELSE e[name]

\* ---------------------------------------------------------------- service
\* What one request to the inference service can produce.
AnalysisContents ==
    {<<>>, <<"{", "a", "}">>, <<" ", "{", "b", "}">>, <<"{", "a">>}
NarrationContents == {<<>>, <<"hi">>, <<" ", "hi", " ">>, <<" ">>}
AudioContents == {<<>>, <<"bytes">>}

ChatResponses(contents) ==
    [kind : {"error", "nochoices", "nomessage"}, content : {<<>>}]
        \cup [kind : {"content"}, content : contents]

SpeechResponses ==
    [kind : {"error"}, content : {<<>>}]
        \cup [kind : {"content"}, content : AudioContents]

\* ------------------------------------------------- analyze_stamp.py: analysis
\* What a called function hands back: the exception it raised (or NoExc), the
\* value it returned, and the requests it sent to the service on the way.
Raised(e, net) == [exc |-> e, value |-> <<>>, net |-> net]
Returned(v, net) == [exc |-> NoExc, value |-> v, net |-> net]

\* One request sent to the service, and whether it came back with non-empty
\* content.
Req(call, resp) ==
    [call |-> call, nonempty |-> resp.kind = "content" /\ resp.content # <<>>]

\* The envelope checks shared by both chat requests: choices, message, content.
ChatContent(resp, call, emptyMsg) ==
    IF resp.kind = "error"
        THEN Raised(Exc("APIError", MsgAPI), <<Req(call, resp)>>)
    ELSE IF resp.kind = "nochoices"
        THEN Raised(Exc("ValueError", MsgNoChoices), <<Req(call, resp)>>)
    ELSE IF resp.kind = "nomessage"
        THEN Raised(Exc("ValueError", MsgNoMessage), <<Req(call, resp)>>)
    ELSE IF resp.content = <<>>
        THEN Raised(Exc("ValueError", emptyMsg), <<Req(call, resp)>>)
    ELSE Returned(resp.content, <<Req(call, resp)>>)

\* encode_image: open() of the path; a path that exists but cannot be read
\* (a directory, no permission) raises an OSError.
encode_image(image) ==
    IF image = "missing" THEN Exc("FileNotFoundError", MsgIO)
    ELSE IF image = "unreadable" THEN Exc("OSError", MsgIO)
    ELSE NoExc

\* A variant that sends the request before looking at the configuration and
\* the file.
analyze_stamp_RequestFirst(e, image, resp) ==
    LET r == ChatContent(resp, "analysis", MsgEmpty)
    IN  IF ~Truthy(e.OPENAI_API_KEY)
            THEN Raised(Exc("ValueError", MsgNoKey), r.net)
        ELSE IF ~Truthy(e.OPENAI_MODEL)
            THEN Raised(Exc("ValueError", MsgNoModel), r.net)
        ELSE IF image = "missing"
            THEN Raised(Exc("FileNotFoundError", MsgNoImage), r.net)
        ELSE r

\* A variant that does not check OPENAI_MODEL.
analyze_stamp_NoModelCheck(e, image, resp) ==
    IF ~Truthy(e.OPENAI_API_KEY) THEN Raised(Exc("ValueError", MsgNoKey), <<>>)
    ELSE IF image = "missing"
        THEN Raised(Exc("FileNotFoundError", MsgNoImage), <<>>)
    ELSE IF encode_image(image) # NoExc THEN Raised(encode_image(image), <<>>)
    ELSE ChatContent(resp, "analysis", MsgEmpty)

\* analyze_stamp(image_path): configuration, file, encoding, one request, then
\* the envelope checks; returns the raw content.
analyze_stamp(e, image, resp) ==
    IF ~Truthy(e.OPENAI_API_KEY) THEN Raised(Exc("ValueError", MsgNoKey), <<>>)
    ELSE IF ~Truthy(e.OPENAI_MODEL)
        THEN Raised(Exc("ValueError", MsgNoModel), <<>>)
    ELSE IF image = "missing"
        THEN Raised(Exc("FileNotFoundError", MsgNoImage), <<>>)
    ELSE IF encode_image(image) # NoExc THEN Raised(encode_image(image), <<>>)
    ELSE ChatContent(resp, "analysis", MsgEmpty)

\* --------------------------------------------- json_to_voice.py: the stages
\* load_json_result(json_path): existence check, then json.load of the file.
load_json_result(file, readable) ==
    IF ~file.exists THEN Raised(Exc("FileNotFoundError", MsgNoJson), <<>>)
    ELSE IF ~readable THEN Raised(Exc("OSError", MsgIO), <<>>)
    ELSE IF ~IsJson(file.data) THEN Raised(Exc("JSONDecodeError", MsgDecode), <<>>)
    ELSE Returned(<<JsonLoads(file.data)>>, <<>>)

\* generate_voice_script(stamp_data, api_key, model): one request, the
\* envelope checks, the content stripped.
generate_voice_script(api_key, model, resp) ==
    IF ~Truthy(api_key) THEN Raised(Exc("ValueError", MsgNoKey), <<>>)
    ELSE IF ~Truthy(model) THEN Raised(Exc("ValueError", MsgNoModel), <<>>)
    ELSE LET r == ChatContent(resp, "narration", MsgEmptyText)
         IN  IF r.exc # NoExc THEN r ELSE Returned(Strip(r.value), r.net)

\* A variant that does not check the voice.
generate_audio_NoVoiceCheck(api_key, tts_model, tts_voice, resp) ==
    IF ~Truthy(api_key) THEN Raised(Exc("ValueError", MsgNoKey), <<>>)
    ELSE IF ~Truthy(tts_model) THEN Raised(Exc("ValueError", MsgNoTtsModel), <<>>)
    ELSE IF resp.kind = "error"
        THEN Raised(Exc("APIError", MsgAPI), <<Req("speech", resp)>>)
    ELSE IF resp.content = <<>>
        THEN Raised(Exc("ValueError", MsgNoAudio), <<Req("speech", resp)>>)
    ELSE Returned(resp.content, <<Req("speech", resp)>>)

\* generate_audio(voice_script, api_key, tts_model, tts_voice, tts_format):
\* configuration, one request, the payload must be non-empty.
generate_audio(api_key, tts_model, tts_voice, resp) ==
    IF ~Truthy(api_key) THEN Raised(Exc("ValueError", MsgNoKey), <<>>)
    ELSE IF ~Truthy(tts_model) THEN Raised(Exc("ValueError", MsgNoTtsModel), <<>>)
    ELSE IF ~Truthy(tts_voice) THEN Raised(Exc("ValueError", MsgNoTtsVoice), <<>>)
    ELSE IF resp.kind = "error"
        THEN Raised(Exc("APIError", MsgAPI), <<Req("speech", resp)>>)
    ELSE IF resp.content = <<>>
        THEN Raised(Exc("ValueError", MsgNoAudio), <<Req("speech", resp)>>)
    ELSE Returned(resp.content, <<Req("speech", resp)>>)

\* ------------------------------------------------------------ the handlers
\* One line on the error stream.
Line(label, msg, payload) == [label |-> label, msg |-> msg, payload |-> payload]
Handled(out, code) == [out |-> out, code |-> code]

\* A variant whose last clause does not exit.
main_except_Swallow(e, result) ==
    IF IsInstance(e.type, "FileNotFoundError")
        THEN Handled(<<Line("Error", e.msg, <<>>)>>, "1")
    ELSE IF IsInstance(e.type, "ValueError")
        THEN Handled(<<Line("ConfigurationError", e.msg, <<>>)>>, "1")
    ELSE Handled(<<Line("UnexpectedError", e.msg, <<>>)>>, "0")

\* The except clauses of main() in analyze_stamp.py, tried in source order:
\* FileNotFoundError, ValueError, json.JSONDecodeError, Exception.
main_except(e, result) ==
    IF IsInstance(e.type, "FileNotFoundError")
        THEN Handled(<<Line("Error", e.msg, <<>>)>>, "1")
    ELSE IF IsInstance(e.type, "ValueError")
        THEN Handled(<<Line("ConfigurationError", e.msg, <<>>)>>, "1")
    ELSE IF IsInstance(e.type, "JSONDecodeError")
        THEN Handled(<<Line("JSONParseError", e.msg, <<>>),
                       Line("ModelAnswer", "", result)>>, "1")
    ELSE Handled(<<Line("UnexpectedError", e.msg, <<>>)>>, "1")

\* A variant that lets a narration failure end the run with exit code 1.
tts_except_Fatal(e) == Handled(<<Line("Error", e.msg, <<>>)>>, "1")

\* The except clause around the --tts branch: a warning, and main() returns.
tts_except(e) == Handled(<<Line("Warning", e.msg, <<>>)>>, "0")

\* The except clauses of main() in json_to_voice.py.
voice_main_except(e) ==
    IF IsInstance(e.type, "FileNotFoundError")
        THEN Handled(<<Line("Error", e.msg, <<>>)>>, "1")
    ELSE IF IsInstance(e.type, "ValueError")
        THEN Handled(<<Line("ConfigurationError", e.msg, <<>>)>>, "1")
    ELSE Handled(<<Line("UnexpectedError", e.msg, <<>>)>>, "1")

\* ---------------------------------------------------------- statement order
VoicePcs == {"v_env", "v_load", "v_script", "v_audio", "v_mkdir", "v_wscript",
             "v_waudio", "v_return"}

\* A variant that enters the narration branch whatever the flag.
main_next_AlwaysTts(p, tts) ==
    CASE p = "analyze" -> "parse"
      [] p = "parse"   -> "mkdir"
      [] p = "mkdir"   -> "open"
      [] p = "open"    -> "dump"
      [] p = "dump"    -> "close"
      [] p = "close"   -> "v_env"
      [] OTHER         -> "done"

\* A variant that opens result.json before the content is parsed.
main_next_OpenFirst(p, tts) ==
    CASE p = "analyze" -> "open"
      [] p = "open"    -> "parse"
      [] p = "parse"   -> "mkdir"
      [] p = "mkdir"   -> "dump"
      [] p = "dump"    -> "close"
      [] p = "close"   -> IF tts THEN "v_env" ELSE "done"
      [] OTHER         -> "done"

\* The statements of main() in analyze_stamp.py after a statement that
\* succeeded: analysis, json.loads, mkdir, open, json.dump, close, then the
\* --tts branch.
main_next(p, tts) ==
    CASE p = "analyze" -> "parse"
      [] p = "parse"   -> "mkdir"
      [] p = "mkdir"   -> "open"
      [] p = "open"    -> "dump"
      [] p = "dump"    -> "close"
      [] p = "close"   -> IF tts THEN "v_env" ELSE "done"
      [] OTHER         -> "done"

\* A variant that writes voice_script.txt as soon as the script exists.
json_to_voice_next_WriteEarly(p) ==
    CASE p = "v_env"     -> "v_load"
      [] p = "v_load"    -> "v_script"
      [] p = "v_script"  -> "v_mkdir"
      [] p = "v_mkdir"   -> "v_wscript"
      [] p = "v_wscript" -> "v_audio"
      [] p = "v_audio"   -> "v_waudio"
      [] p = "v_waudio"  -> "v_return"
      [] OTHER           -> "done"

\* The statements of json_to_voice(): environment, load, narration, speech,
\* mkdir, the two writes, return.
json_to_voice_next(p) ==
    CASE p = "v_env"     -> "v_load"
      [] p = "v_load"    -> "v_script"
      [] p = "v_script"  -> "v_audio"
      [] p = "v_audio"   -> "v_mkdir"
      [] p = "v_mkdir"   -> "v_wscript"
      [] p = "v_wscript" -> "v_waudio"
      [] p = "v_waudio"  -> "v_return"
      [] OTHER           -> "done"

\* The environment as json_to_voice() reads it, with its defaults.
json_to_voice_env(e) ==
    [api_key    |-> e.OPENAI_API_KEY,
     model      |-> e.OPENAI_MODEL,
     tts_model  |-> GetenvDefault(e, "OPENAI_TTS_MODEL", "tts-1"),
     tts_voice  |-> GetenvDefault(e, "OPENAI_TTS_VOICE", "alloy"),
     tts_format |-> GetenvDefault(e, "OPENAI_TTS_FORMAT", "mp3")]

\* The check of the required variables at the top of json_to_voice().
json_to_voice_required(cfg) ==
    IF ~Truthy(cfg.api_key) THEN Exc("ValueError", MsgNoKey)
    ELSE IF ~Truthy(cfg.model) THEN Exc("ValueError", MsgNoModel)
    ELSE NoExc

\* -------------------------------------------------------------------- state
VARIABLES
    mode,      \* "idle", "analyze" (analyze_stamp.py) or "voice" (json_to_voice.py)
    pc,        \* the statement the running process is at; "done" once it ended
    args,      \* the command line: image path state, --tts, json_path
    env,       \* the process environment
    fs,        \* output/result.json, output/voice_script.txt, output/result.<fmt>
    locals,    \* result, result_json, stamp_data, voice_script, audio_data
    netlog,    \* the requests this run has sent, in order
    stdout,    \* the lines this run has printed
    stderr,    \* the lines this run has written to the error stream
    exitCode,  \* "none" while running, then "0", "1" or "killed"
    err,       \* the exception the run's handler caught, or NoExc
    wrote,     \* the files this run has opened for writing
    fs0,       \* the file system as the run found it
    runs       \* the number of runs started

vars == <<mode, pc, args, env, fs, locals, netlog, stdout, stderr, exitCode,
          err, wrote, fs0, runs>>

ResultPath == "output/result.json"

InitLocals ==
    [result |-> <<>>, result_json |-> None, stamp_data |-> None,
     voice_script |-> <<>>, audio_data |-> <<>>]

Init ==
    /\ mode = "idle"
    /\ pc = "idle"
    /\ args = [image |-> "none", tts |-> FALSE, json_path |-> ResultPath]
    /\ env = BaseEnv
    /\ fs = [result_json |-> Absent, voice_script |-> Absent,
             audio |-> [f \in TtsFormats |-> Absent]]
    /\ locals = InitLocals
    /\ netlog = <<>>
    /\ stdout = <<>>
    /\ stderr = <<>>
    /\ exitCode = "none"
    /\ err = NoExc
    /\ wrote = {}
    /\ fs0 = fs
    /\ runs = 0

\* A new process: nothing of the previous run is left but the files.
Fresh ==
    /\ runs < MaxRuns
    /\ pc \in {"idle", "done"}
    /\ locals' = InitLocals
    /\ netlog' = <<>>
    /\ stdout' = <<>>
    /\ stderr' = <<>>
    /\ exitCode' = "none"
    /\ err' = NoExc
    /\ wrote' = {}
    /\ fs0' = fs
    /\ runs' = runs + 1
    /\ UNCHANGED fs

\* python analyze_stamp.py image_path [--tts]
StartAnalyze ==
    /\ Fresh
    /\ \E image \in {"missing", "image", "unreadable"}, tts \in BOOLEAN :
           args' = [image |-> image, tts |-> tts, json_path |-> ResultPath]
    /\ env' \in Envs
    /\ mode' = "analyze"
    /\ pc' = "analyze"

\* python json_to_voice.py json_path
StartVoice ==
    /\ Fresh
    /\ \E path \in {ResultPath, "missing.json"} :
           args' = [image |-> "none", tts |-> FALSE, json_path |-> path]
    /\ env' \in Envs
    /\ mode' = "voice"
    /\ pc' = "v_env"

\* The handler an exception raised at the current statement reaches.
except_for(e) ==
    IF mode = "voice" THEN voice_main_except(e)
    ELSE IF pc \in VoicePcs THEN tts_except(e)
    ELSE main_except(e, locals.result)

\* The exception e leaves the current statement: the handler reports it and
\* the process ends.
Raise(e) ==
    /\ err' = e
    /\ stderr' = stderr \o except_for(e).out
    /\ exitCode' = except_for(e).code
    /\ pc' = "done"

\* The current statement succeeded: the next one of the function it is in.
Continue ==
    /\ pc' = IF pc \in VoicePcs THEN json_to_voice_next(pc)
             ELSE main_next(pc, args.tts)
    /\ UNCHANGED <<err, stderr, exitCode>>

\* result = analyze_stamp(args.image_path)
AnalyzeStamp ==
    /\ pc = "analyze"
    /\ \E resp \in ChatResponses(AnalysisContents) :
        LET r == analyze_stamp(env, args.image, resp)
        IN  /\ netlog' = netlog \o r.net
            /\ IF r.exc # NoExc
                   THEN Raise(r.exc) /\ UNCHANGED locals
                   ELSE Continue /\ locals' = [locals EXCEPT !.result = r.value]
    /\ stdout' = Append(stdout, "analyzing")
    /\ UNCHANGED <<mode, args, env, fs, wrote, fs0, runs>>

\* result_json = json.loads(result), then the result is printed
ParseResult ==
    /\ pc = "parse"
    /\ IF IsJson(locals.result)
           THEN /\ Continue
                /\ locals' = [locals EXCEPT !.result_json = JsonLoads(locals.result)]
                /\ stdout' = Append(stdout, "result")
           ELSE /\ Raise(Exc("JSONDecodeError", MsgDecode))
                /\ UNCHANGED <<locals, stdout>>
    /\ UNCHANGED <<mode, args, env, fs, netlog, wrote, fs0, runs>>

\* output_dir.mkdir(exist_ok=True)
MkdirOutput ==
    /\ pc = "mkdir"
    /\ \E ok \in BOOLEAN : IF ok THEN Continue ELSE Raise(Exc("OSError", MsgIO))
    /\ UNCHANGED <<mode, args, env, fs, locals, netlog, stdout, wrote, fs0, runs>>

\* open(output_file, "w"): the file is created or truncated
OpenResultFile ==
    /\ pc = "open"
    /\ \E ok \in BOOLEAN :
        IF ok THEN /\ Continue
                   /\ fs' = [fs EXCEPT !.result_json = File(<<>>)]
                   /\ wrote' = wrote \cup {ResultPath}
              ELSE /\ Raise(Exc("OSError", MsgIO))
                   /\ UNCHANGED <<fs, wrote>>
    /\ UNCHANGED <<mode, args, env, locals, netlog, stdout, fs0, runs>>

\* json.dump(result_json, f, ...): one chunk reaches the file
DumpChunk ==
    /\ pc = "dump"
    /\ \E ok \in BOOLEAN :
        LET data == fs.result_json.data
            chunks == JsonDump(locals.result_json)
        IN  IF ok
                THEN /\ fs' = [fs EXCEPT
                           !.result_json = File(Append(data, chunks[Len(data) + 1]))]
                     /\ IF Len(data) + 1 = Len(chunks)
                            THEN Continue
                            ELSE UNCHANGED <<pc, err, stderr, exitCode>>
                ELSE /\ Raise(Exc("OSError", MsgIO))
                     /\ UNCHANGED fs
    /\ UNCHANGED <<mode, args, env, locals, netlog, stdout, wrote, fs0, runs>>

\* the file is closed, "saved" is printed, and `if args.tts` is decided
CloseResultFile ==
    /\ pc = "close"
    /\ pc' = main_next(pc, args.tts)
    /\ exitCode' = IF pc' = "done" THEN "0" ELSE exitCode
    /\ stdout' = Append(stdout, "saved")
    /\ UNCHANGED <<mode, args, env, fs, locals, netlog, stderr, err, wrote, fs0,
                   runs>>

\* The configuration json_to_voice() works with in this run.
cfg == json_to_voice_env(env)

\* json_to_voice(): the environment is read and the required variables checked
VoiceEnv ==
    /\ pc = "v_env"
    /\ IF json_to_voice_required(cfg) # NoExc
           THEN Raise(json_to_voice_required(cfg))
           ELSE Continue
    /\ stdout' = IF mode = "analyze" THEN Append(stdout, "generating") ELSE stdout
    /\ UNCHANGED <<mode, args, env, fs, locals, netlog, wrote, fs0, runs>>

\* stamp_data = load_json_result(json_path)
LoadJsonResult ==
    /\ pc = "v_load"
    /\ \E readable \in BOOLEAN :
        LET file == IF args.json_path = ResultPath THEN fs.result_json ELSE Absent
            r == load_json_result(file, readable)
        IN  IF r.exc # NoExc
                THEN Raise(r.exc) /\ UNCHANGED locals
                ELSE Continue /\ locals' = [locals EXCEPT !.stamp_data = r.value[1]]
    /\ UNCHANGED <<mode, args, env, fs, netlog, stdout, wrote, fs0, runs>>

\* voice_script = generate_voice_script(stamp_data, api_key, model)
GenerateVoiceScript ==
    /\ pc = "v_script"
    /\ \E resp \in ChatResponses(NarrationContents) :
        LET r == generate_voice_script(cfg.api_key, cfg.model, resp)
        IN  /\ netlog' = netlog \o r.net
            /\ IF r.exc # NoExc
                   THEN Raise(r.exc) /\ UNCHANGED locals
                   ELSE Continue
                        /\ locals' = [locals EXCEPT !.voice_script = r.value]
    /\ UNCHANGED <<mode, args, env, fs, stdout, wrote, fs0, runs>>

\* audio_data = generate_audio(voice_script, api_key, tts_model, tts_voice, ...)
GenerateAudio ==
    /\ pc = "v_audio"
    /\ \E resp \in SpeechResponses :
        LET r == generate_audio(cfg.api_key, cfg.tts_model, cfg.tts_voice, resp)
        IN  /\ netlog' = netlog \o r.net
            /\ IF r.exc # NoExc
                   THEN Raise(r.exc) /\ UNCHANGED locals
                   ELSE Continue
                        /\ locals' = [locals EXCEPT !.audio_data = r.value]
    /\ UNCHANGED <<mode, args, env, fs, stdout, wrote, fs0, runs>>

\* output_path.mkdir(exist_ok=True)
VoiceMkdir ==
    /\ pc = "v_mkdir"
    /\ \E ok \in BOOLEAN : IF ok THEN Continue ELSE Raise(Exc("OSError", MsgIO))
    /\ UNCHANGED <<mode, args, env, fs, locals, netlog, stdout, wrote, fs0, runs>>

\* What open(path, "w") and one write leave of a file: the data, the file as
\* it was (open failed), or an empty file (the write failed).
Written(old, data, io) ==
    IF io = "ok" THEN File(data)
    ELSE IF io = "open fails" THEN old
    ELSE File(<<>>)

\* with open(script_file, "w") as f: f.write(voice_script)
WriteScript ==
    /\ pc = "v_wscript"
    /\ \E io \in {"ok", "open fails", "write fails"} :
        /\ fs' = [fs EXCEPT
               !.voice_script = Written(fs.voice_script, locals.voice_script, io)]
        /\ wrote' = IF io = "open fails" THEN wrote
                    ELSE wrote \cup {"output/voice_script.txt"}
        /\ IF io = "ok" THEN Continue ELSE Raise(Exc("OSError", MsgIO))
    /\ UNCHANGED <<mode, args, env, locals, netlog, stdout, fs0, runs>>

\* with open(audio_file, "wb") as f: f.write(audio_data)
WriteAudio ==
    /\ pc = "v_waudio"
    /\ \E io \in {"ok", "open fails", "write fails"} :
        /\ fs' = [fs EXCEPT !.audio[cfg.tts_format] =
                      Written(fs.audio[cfg.tts_format], locals.audio_data, io)]
        /\ wrote' = IF io = "open fails" THEN wrote
                    ELSE wrote \cup {"output/result.<format>"}
        /\ IF io = "ok" THEN Continue ELSE Raise(Exc("OSError", MsgIO))
    /\ UNCHANGED <<mode, args, env, locals, netlog, stdout, fs0, runs>>

\* json_to_voice() returns; the caller prints the two paths and ends
VoiceReturn ==
    /\ pc = "v_return"
    /\ pc' = "done"
    /\ exitCode' = "0"
    /\ stdout' = stdout \o <<"script saved", "audio saved">>
    /\ UNCHANGED <<mode, args, env, fs, locals, netlog, stderr, err, wrote, fs0,
                   runs>>

\* The process is killed (or the machine stops) between two statements.
Crash ==
    /\ pc \notin {"idle", "done"}
    /\ pc' = "done"
    /\ exitCode' = "killed"
    /\ UNCHANGED <<mode, args, env, fs, locals, netlog, stdout, stderr, err,
                   wrote, fs0, runs>>

Next ==
    \/ StartAnalyze
    \/ StartVoice
    \/ AnalyzeStamp
    \/ ParseResult
    \/ MkdirOutput
    \/ OpenResultFile
    \/ DumpChunk
    \/ CloseResultFile
    \/ VoiceEnv
    \/ LoadJsonResult
    \/ GenerateVoiceScript
    \/ GenerateAudio
    \/ VoiceMkdir
    \/ WriteScript
    \/ WriteAudio
    \/ VoiceReturn
    \/ Crash

Spec == Init /\ [][Next]_vars

\* ================================================================ properties
Printed(line) == \E i \in DOMAIN stdout : stdout[i] = line
Sent(call) == \E i \in DOMAIN netlog : netlog[i].call = call
Answered(call) == \E i \in DOMAIN netlog : netlog[i].call = call /\ netlog[i].nonempty
Failed(call) == \E i \in DOMAIN netlog : netlog[i].call = call /\ ~netlog[i].nonempty
Reported(label) == \E i \in DOMAIN stderr : stderr[i].label = label

\* A run of the primary entry point that came to its own end.
PrimaryEnded == mode = "analyze" /\ pc = "done" /\ exitCode # "killed"

\* The run has written result.json completely and said so.
Persisted == Printed("saved")

\* The --tts branch was entered and did not come to its end.
NarrationFailed == Printed("generating") /\ ~Printed("audio saved")

\* result.json holds the record this run parsed.
HoldsRecord == fs.result_json = File(JsonDump(locals.result_json))

NarrationFiles == {"output/voice_script.txt", "output/result.<format>"}

\* C1: in a --tts run that persisted result.json, a failure anywhere in the
\* narration branch is reported as one warning on the error stream and the run
\* ends with exit code 0, result.json holding the persisted record.
C1_NarrationFailureIsWarning ==
    (PrimaryEnded /\ Persisted /\ NarrationFailed) =>
        /\ exitCode = "0"
        /\ err # NoExc
        /\ stderr = <<Line("Warning", err.msg, <<>>)>>
        /\ HoldsRecord

C1_Witness ==
    /\ PrimaryEnded /\ Persisted /\ NarrationFailed
    /\ Answered("narration") /\ Failed("speech")
    /\ exitCode = "0" /\ Reported("Warning")

\* C2: content that is not JSON is reported as a malformed response (not as a
\* configuration error), with the raw text on the error stream, and exits 1.
C2_MalformedResponseReported ==
    (PrimaryEnded /\ ~Persisted /\ err.type = "JSONDecodeError") =>
        /\ exitCode = "1"
        /\ Reported("JSONParseError")
        /\ ~Reported("ConfigurationError")
        /\ \E i \in DOMAIN stderr : stderr[i].payload = locals.result

\* C3: a failure before result.json is persisted ends the run with exit code 1
\* and a message on the error stream, with no narration or speech request even
\* under --tts; exit code 0 only when result.json was persisted in this run.
C3_EarlyFailureIsFatal ==
    PrimaryEnded =>
        /\ ~Persisted =>
               /\ exitCode = "1"
               /\ stderr # <<>>
               /\ ~Sent("narration")
               /\ ~Sent("speech")
        /\ exitCode = "0" => Persisted /\ ResultPath \in wrote /\ HoldsRecord

C3_Witness ==
    /\ PrimaryEnded /\ args.tts /\ ~Persisted
    /\ ResultPath \in wrote /\ err.type = "OSError"
    /\ exitCode = "1"

\* The analyzer has run on a path that does not exist.
MissingImageAnalyzed == PrimaryEnded /\ args.image = "missing"

\* C4 as stated: a non-existent image path fails with FileNotFound and without
\* a request, whatever the configuration.
C4_Original ==
    MissingImageAnalyzed => err.type = "FileNotFoundError" /\ netlog = <<>>

\* C4 amended: a non-existent image path never leads to a request; the failure
\* is FileNotFound when the key and the model are configured, and the
\* configuration error when one of them is missing.
C4_MissingImageNoRequest ==
    MissingImageAnalyzed =>
        /\ netlog = <<>>
        /\ exitCode = "1"
        /\ IF Truthy(env.OPENAI_API_KEY) /\ Truthy(env.OPENAI_MODEL)
               THEN err = Exc("FileNotFoundError", MsgNoImage)
               ELSE err.type = "ValueError" /\ err.msg \in {MsgNoKey, MsgNoModel}

C4_Witness ==
    /\ MissingImageAnalyzed
    /\ err = Exc("FileNotFoundError", MsgNoImage)
    /\ Reported("Error")

\* C5: with the key or the model missing (unset or empty) the analyzer fails
\* with the configuration error and sends no request; the failure differs from
\* the empty-response failures, which arise only after a request was sent.
C5_ConfigErrorBeforeRequest ==
    /\ (PrimaryEnded /\ ~(Truthy(env.OPENAI_API_KEY) /\ Truthy(env.OPENAI_MODEL))) =>
           /\ netlog = <<>>
           /\ err.type = "ValueError"
           /\ err.msg \in {MsgNoKey, MsgNoModel}
           /\ err.msg \notin EmptyResponseMsgs
           /\ exitCode = "1"
    /\ (PrimaryEnded /\ err.msg \in EmptyResponseMsgs) => netlog # <<>>

C5_Witness ==
    /\ PrimaryEnded /\ args.image = "image"
    /\ env.OPENAI_MODEL = ""
    /\ err = Exc("ValueError", MsgNoModel)

\* The analysis request came back with nothing that parses: no choices, no
\* message, empty content, or content that is not JSON.
AnalysisUnusable ==
    /\ PrimaryEnded
    /\ Sent("analysis")
    /\ ~Printed("result")
    /\ err.type \in {"ValueError", "JSONDecodeError"}

\* C6: when the analysis response has no choices, no message, empty content or
\* content that is not JSON, the run does not touch result.json: it is not
\* created, and an earlier one is left as it was.
C6_UnusableResponseWritesNothing ==
    AnalysisUnusable => fs.result_json = fs0.result_json /\ ResultPath \notin wrote

C6_Witness ==
    /\ AnalysisUnusable
    /\ err.type = "JSONDecodeError"
    /\ fs0.result_json.exists
    /\ fs.result_json = fs0.result_json

\* C7: in a --tts run, voice_script.txt and the audio file are written only
\* after the narration and the speech request both returned non-empty results;
\* a run in which one of them failed writes neither.
C7_NoNarrationFilesOnFailure ==
    mode = "analyze" =>
        /\ (wrote \cap NarrationFiles # {}) =>
               Answered("narration") /\ Answered("speech")
        /\ (Failed("narration") \/ Failed("speech")) =>
               wrote \cap NarrationFiles = {}

C7_Witness ==
    /\ PrimaryEnded /\ args.tts
    /\ Answered("narration") /\ Failed("speech")
    /\ wrote = {ResultPath}

\* generate_audio has been called and has returned or raised.
SynthesizerRan ==
    /\ Answered("narration")
    /\ \/ pc \in {"v_mkdir", "v_wscript", "v_waudio", "v_return"}
       \/ pc = "done" /\ exitCode # "killed"

TtsConfigMsgs == {MsgNoTtsModel, MsgNoTtsVoice}

\* C8 as stated: with the TTS model or the TTS voice unset in the environment,
\* the synthesis stage fails with the configuration error and writes no audio.
C8_Original ==
    (SynthesizerRan /\ (env.OPENAI_TTS_MODEL = None \/ env.OPENAI_TTS_VOICE = None)) =>
        /\ err.type = "ValueError"
        /\ err.msg \in TtsConfigMsgs
        /\ "output/result.<format>" \notin wrote

\* C8 amended: with the TTS model or the TTS voice set to the empty string, the
\* synthesis stage fails with the configuration error, before any speech
\* request and without writing an audio file; an unset one takes its default
\* and is no configuration error.
C8_EmptyTtsSettingFails ==
    SynthesizerRan =>
        /\ (env.OPENAI_TTS_MODEL = "" \/ env.OPENAI_TTS_VOICE = "") =>
               /\ err.type = "ValueError"
               /\ err.msg \in TtsConfigMsgs
               /\ ~Sent("speech")
               /\ "output/result.<format>" \notin wrote
        /\ (env.OPENAI_TTS_MODEL # "" /\ env.OPENAI_TTS_VOICE # "") =>
               err.msg \notin TtsConfigMsgs

C8_Witness ==
    /\ SynthesizerRan
    /\ env.OPENAI_TTS_VOICE = ""
    /\ err = Exc("ValueError", MsgNoTtsVoice)
    /\ ~Sent("speech")

\* C9: result.json is at every moment absent or a complete valid record, never
\* empty or truncated, and after a successful run it is the parsed response.
C9_ResultNeverPartial ==
    /\ fs.result_json.exists => IsJson(fs.result_json.data)
    /\ (PrimaryEnded /\ exitCode = "0") => HoldsRecord

\* The calls of the request log, in order.
Calls == [i \in DOMAIN netlog |-> netlog[i].call]

\* C10: a run of the primary entry point sends the analysis, narration and
\* speech requests at most once each and in that order; the narration request
\* only under --tts and after result.json was persisted, the speech request
\* only after the narration request returned non-empty text; no request
\* follows a failed one.
C10_RequestsOnceInOrder ==
    mode = "analyze" =>
        /\ Calls = SubSeq(<<"analysis", "narration", "speech">>, 1, Len(netlog))
        /\ Sent("narration") => args.tts /\ Persisted /\ HoldsRecord
        /\ Sent("speech") => Answered("narration")
        /\ \A i \in DOMAIN netlog : i < Len(netlog) => netlog[i].nonempty

C10_Witness ==
    /\ PrimaryEnded
    /\ Len(netlog) = 3
    /\ Answered("speech")
    /\ exitCode = "0"
====
